---- MODULE Spec2Model ----
(***************************************************************************)
(* Connection providers of the connector: the injected web3 provider       *)
(* (InjectedWeb3ConnectionProvider) and the WalletConnect provider         *)
(* (WalletConnectConnectionProvider).  One provider object of one kind is  *)
(* constructed; subscribers subscribe to getConnection(), the wallet       *)
(* behind the provider handle answers RPC calls and fires events.          *)
(*                                                                         *)
(* Execution is single-threaded: one action is one turn of the event loop  *)
(* together with the promise continuations (microtasks) it triggers.       *)
(* An RPC read of a signal is answered by the wallet (a snapshot of its    *)
(* state) and delivered to the program in a later turn.                    *)
(***************************************************************************)
EXTENDS Integers, Sequences, FiniteSets, TLC

\* ------------------------------------------------------------------ bounds
MaxSubs == 2        \* subscriptions to getConnection()
MaxEvents == 2      \* events the wallet fires
MaxCallers == 1     \* callers of WalletConnect isConnected()
MaxTeardowns == 2   \* calls of unsubscribe(), and of disconnect(), per subscription

Subs == 1..MaxSubs
Callers == 1..MaxCallers

\* ------------------------------------------------------- values of the wallet
PROVIDER_ID_INJECTED == "injected"
PROVIDER_ID_WALLETCONNECT == "walletconnect"
Kinds == {PROVIDER_ID_INJECTED, PROVIDER_ID_WALLETCONNECT}

\* Account lists the wallet can expose (eth_accounts, accountsChanged).
AccountLists == {<<>>, <<"0xA">>, <<"0xB", "0xA">>}
\* Raw chain ids as the wallet reports them: hex strings, as character lists.
RawChains == {<<"0", "x", "1">>, <<"0", "x", "2", "a">>}
EventNames == {"accountsChanged", "chainChanged", "disconnected"}

VARIABLES
    kind,        \* which provider class was constructed
    caps,        \* the handle: present, hasRequest, hasEnable, hasClose,
                 \* hasDisconnect
    accounts,    \* the wallet's current account list
    chain,       \* the wallet's current chain id (raw)
    session,     \* WalletConnect session: "connected" | "disconnected"
    listeners,   \* event name -> subscriptions with a handler on the handle
    nEvents,     \* events fired so far
    inst,        \* cached WalletConnect instance: none|connecting|ready|failed
    connectRuns, \* runs of _connect
    pc,          \* position of each subscription
    log,         \* per subscription: calls, signal emissions, emitted states
    addrSig,     \* latest value of the address signal (<<>>: none yet)
    chainSig,    \* latest value of the chain-id signal
    statSig,     \* latest value of the liveness signal (WalletConnect)
    addrFetch,   \* initial fetch of the address signal
    chainFetch,  \* initial fetch of the chain-id signal
    gotInst,     \* instance a subscription received (0: none)
    icPc,        \* isConnected() callers: idle|waiting|done|failed
    icInst,      \* instance an isConnected() caller received (0: none)
    last,        \* the latest accountsChanged event
    probe,       \* the handle and page inspected by getDappType
    autoResult,  \* result of isAutoConnected(): "none" | "true" | "false"
    optionResult, \* result of getOption(): "none" | "undefined" | a family
    connResult,  \* injected isConnected(): none|pending|true|false|rejected
    rpcLog       \* RPC requests getOption() and isConnected() issued

vars == <<kind, caps, accounts, chain, session, listeners, nEvents, inst,
          connectRuns, pc, log, addrSig, chainSig, statSig, addrFetch,
          chainFetch, gotInst, icPc, icInst, last, probe, autoResult,
          optionResult, connResult, rpcLog>>

\* ------------------------------------------------------------ log entries
Entry(t, what, a, c) == [t |-> t, what |-> what, address |-> a, chainId |-> c]
Call(m) == Entry("call", m, "", 0)
On(ev) == Entry("on", ev, "", 0)
Off(ev) == Entry("off", ev, "", 0)
ErrorNote == Entry("error", "error", "", 0)
Asked(op) == Entry("app", op, "", 0)      \* the application calls op
Ret(outcome) == Entry("ret", outcome, "", 0) \* what the caller's promise does
AddrNext(a) == Entry("sig", "address", a, 0)
ChainNext(c) == Entry("sig", "chainId", "", c)
StatNext(st) == Entry("sig", st, "", 0)

STATE_CONNECTING == Entry("emit", "connecting", "", 0)
STATE_DISCONNECTED == Entry("emit", "disconnected", "", 0)
getStateConnected(a, c) == Entry("emit", "connected", a, c)

Emitted(lg) == SelectSeq(lg, LAMBDA e : e.t = "emit")
Count(lg, e) == Len(SelectSeq(lg, LAMBDA x : x = e))
Last(sq) == sq[Len(sq)]

\* ---------------------------------------------------------- pure functions
\* mapRaw of getAddress: ([account]) => account
lastAccount(list) == IF Len(list) = 0 THEN "undef" ELSE list[Len(list)]
firstAccount(list) == IF Len(list) = 0 THEN "undef" ELSE list[1]

HexVal(ch) ==
    CASE ch = "0" -> 0 [] ch = "1" -> 1 [] ch = "2" -> 2 [] ch = "3" -> 3
      [] ch = "4" -> 4 [] ch = "5" -> 5 [] ch = "6" -> 6 [] ch = "7" -> 7
      [] ch = "8" -> 8 [] ch = "9" -> 9 [] ch = "a" -> 10 [] ch = "b" -> 11
      [] ch = "c" -> 12 [] ch = "d" -> 13 [] ch = "e" -> 14 [] ch = "f" -> 15

RECURSIVE ParseDigits(_, _, _)
ParseDigits(sq, radix, acc) ==
    IF sq = <<>> THEN acc
    ELSE ParseDigits(Tail(sq), radix, acc * radix + HexVal(Head(sq)))

\* mapRaw of getChainId: raw => parseInt(raw); a "0x" prefix selects radix 16.
parseInt(raw) ==
    IF Len(raw) >= 2 /\ raw[1] = "0" /\ raw[2] = "x"
    THEN ParseDigits(SubSeq(raw, 3, Len(raw)), 16, 0)
    ELSE ParseDigits(raw, 10, 0)

\* The number web3.eth.getChainId() and the WalletConnect chainChanged event carry.
networkIdOf(raw) == parseInt(raw)

\* getWalletAsync's map and the constructor's map of the injected provider.
injectedStateIgnoringAddress(a, c) == getStateConnected(a, c)
injectedState(a, c) ==
    IF a # "undef" THEN getStateConnected(a, c) ELSE STATE_DISCONNECTED

\* getConnect's map of the WalletConnect provider.
wcStateIgnoringStatus(a, c, st) ==
    IF a # "undef" THEN getStateConnected(a, c) ELSE STATE_DISCONNECTED
wcState(a, c, st) ==
    IF st = "connected" /\ a # "undef" THEN getStateConnected(a, c)
    ELSE STATE_DISCONNECTED

\* distinctUntilChanged() of the WalletConnect signal streams: does v pass?
wcDistinctOff(prev, v) == TRUE
wcDistinct(prev, v) == prev # <<v>>

\* getObservable of the injected provider forwards every value.
Passes(prev, v) ==
    IF kind = PROVIDER_ID_WALLETCONNECT THEN wcDistinct(prev, v) ELSE TRUE

\* combineLatest: a state is emitted once every combined signal has a value.
AllSignals(a, c, st) ==
    /\ a # <<>>
    /\ c # <<>>
    /\ (kind = PROVIDER_ID_WALLETCONNECT => st # <<>>)

\* the map of getWalletAsync applied by both providers
StateOfWithoutLiveness(a, c, st) == injectedState(a[1], c[1])

StateOf(a, c, st) ==
    IF kind = PROVIDER_ID_INJECTED THEN injectedState(a[1], c[1])
    ELSE wcState(a[1], c[1], st[1])

\* A signal emitted `entry`; a, c, st are the latest values after it.
PushSignal(lg, entry, a, c, st) ==
    IF AllSignals(a, c, st) THEN Append(Append(lg, entry), StateOf(a, c, st))
    ELSE Append(lg, entry)

\* ------------------------------------------------------------ wallet family
DappTypes == {"Metamask", "Trust", "GoWallet", "AlphaWallet", "Status",
              "Coinbase", "Cipher", "Mist", "Parity", "ImToken", "Dapper",
              "Mock", "Web3"}
Generic == "Web3"
CtorNames == {"EthereumProvider", "Web3FrameProvider", "Web3ProviderEngine",
              "Object"}
FlagNames == {"isImToken", "isDapper", "isMetaMask", "isTrust", "isGoWallet",
              "isAlphaWallet", "isStatus", "isToshi", "cipher"}

\* getDappType without its `if (!provider) return undefined`
getDappTypeUnguarded(p) ==
    IF "isImToken" \in p.flags THEN "ImToken"
    ELSE IF "isDapper" \in p.flags THEN "Dapper"
    ELSE IF "isMetaMask" \in p.flags THEN "Metamask"
    ELSE IF "isTrust" \in p.flags THEN "Trust"
    ELSE IF "isGoWallet" \in p.flags THEN "GoWallet"
    ELSE IF "isAlphaWallet" \in p.flags THEN "AlphaWallet"
    ELSE IF "isStatus" \in p.flags THEN "Status"
    ELSE IF "isToshi" \in p.flags THEN "Coinbase"
    ELSE IF "cipher" \in p.flags THEN "Cipher"
    ELSE IF p.ctor = "EthereumProvider" THEN "Mist"
    ELSE IF p.ctor = "Web3FrameProvider" THEN "Parity"
    ELSE IF p.ctor = "Web3ProviderEngine" THEN "Mock"
    ELSE Generic

getDappType(p) ==
    IF ~p.defined THEN "undefined"
    ELSE IF "isImToken" \in p.flags THEN "ImToken"
    ELSE IF "isDapper" \in p.flags THEN "Dapper"
    ELSE IF "isMetaMask" \in p.flags THEN "Metamask"
    ELSE IF "isTrust" \in p.flags THEN "Trust"
    ELSE IF "isGoWallet" \in p.flags THEN "GoWallet"
    ELSE IF "isAlphaWallet" \in p.flags THEN "AlphaWallet"
    ELSE IF "isStatus" \in p.flags THEN "Status"
    ELSE IF "isToshi" \in p.flags THEN "Coinbase"
    ELSE IF "cipher" \in p.flags THEN "Cipher"
    ELSE IF p.ctor = "EthereumProvider" THEN "Mist"
    ELSE IF p.ctor = "Web3FrameProvider" THEN "Parity"
    ELSE IF p.ctor = "Web3ProviderEngine" THEN "Mock"
    ELSE Generic

unsupportedDappTypes == {"Dapper"}
disabledAutoLogin == {Generic, "Metamask"}
disabledAutoLoginWithoutGeneric == {"Metamask"}

isDappSupportAutoconnectGenericEligible(dapp) ==
    IF dapp = "undefined" THEN FALSE
    ELSE ~(dapp \in unsupportedDappTypes \/ dapp \in disabledAutoLoginWithoutGeneric)

isDappSupportAutoconnect(dapp) ==
    IF dapp = "undefined" THEN FALSE
    ELSE ~(dapp \in unsupportedDappTypes \/ dapp \in disabledAutoLogin)

\* -------------------------------------------------------------------- Init
NoFetch == [st |-> "none", val |-> <<>>]
Pending == [st |-> "pending", val |-> <<>>]
\* The latest accountsChanged event: its list, the subscriptions whose handler
\* ran with an open subscriber, and whether it is the step just taken.
NoEventYet == [seen |-> FALSE, fresh |-> FALSE, accts |-> <<>>, to |-> {}]
Fired(list, to) == [seen |-> TRUE, fresh |-> TRUE, accts |-> list, to |-> to]

InjectedCaps ==
    {c \in [present : BOOLEAN, hasRequest : BOOLEAN, hasEnable : BOOLEAN,
            hasClose : BOOLEAN, hasDisconnect : BOOLEAN] :
        ~c.present => (~c.hasRequest /\ ~c.hasEnable /\ ~c.hasClose
                       /\ ~c.hasDisconnect)}
WalletConnectCaps == [present |-> TRUE, hasRequest |-> TRUE, hasEnable |-> TRUE,
                      hasClose |-> FALSE, hasDisconnect |-> TRUE]

InitConnection ==
    /\ session = "new"
    /\ listeners = [e \in EventNames |-> {}]
    /\ nEvents = 0
    /\ inst = [st |-> "none", id |-> 0]
    /\ connectRuns = 0
    /\ pc = [s \in Subs |-> "idle"]
    /\ log = [s \in Subs |-> <<>>]
    /\ addrSig = [s \in Subs |-> <<>>]
    /\ chainSig = [s \in Subs |-> <<>>]
    /\ statSig = [s \in Subs |-> <<>>]
    /\ addrFetch = [s \in Subs |-> NoFetch]
    /\ chainFetch = [s \in Subs |-> NoFetch]
    /\ gotInst = [s \in Subs |-> 0]
    /\ icPc = [c \in Callers |-> "idle"]
    /\ icInst = [c \in Callers |-> 0]
    /\ last = NoEventYet
    /\ autoResult = "none"
    /\ optionResult = "none"
    /\ connResult = "none"
    /\ rpcLog = <<>>

Init ==
    /\ kind \in Kinds
    /\ caps \in (IF kind = PROVIDER_ID_INJECTED THEN InjectedCaps
                 ELSE {WalletConnectCaps})
    /\ accounts \in AccountLists
    /\ chain \in RawChains
    /\ probe = [defined |-> caps.present, flags |-> {}, ctor |-> "Object"]
    /\ InitConnection

\* What a step leaves alone.
WalletSame == UNCHANGED <<kind, caps, chain, session, probe, autoResult,
                          optionResult, connResult, rpcLog>>
CallersSame == UNCHANGED <<icPc, icInst>>
InstanceSame == UNCHANGED <<inst, connectRuns>>
SignalsSame == UNCHANGED <<addrSig, chainSig, statSig, addrFetch, chainFetch>>

\* ------------------------------------------- injected provider: handshake
\* The stream errors: connect() rejected, nothing catches it.
Fail(s, lg) ==
    /\ pc' = [pc EXCEPT ![s] = "error"]
    /\ log' = [log EXCEPT ![s] = Append(lg, ErrorNote)]
    /\ UNCHANGED <<listeners, gotInst>>
    /\ SignalsSame

\* A handshake call is pending, the signal listeners registered already.
AwaitListening(s, lg, where, method) ==
    /\ pc' = [pc EXCEPT ![s] = where]
    /\ log' = [log EXCEPT ![s] = Append(lg, Call(method))]
    /\ listeners' = [listeners EXCEPT !["accountsChanged"] = @ \cup {s},
                                      !["chainChanged"] = @ \cup {s}]
    /\ UNCHANGED gotInst
    /\ SignalsSame

\* A handshake call is pending.
Await(s, lg, where, method) ==
    /\ pc' = [pc EXCEPT ![s] = where]
    /\ log' = [log EXCEPT ![s] = Append(lg, Call(method))]
    /\ UNCHANGED <<listeners, gotInst>>
    /\ SignalsSame

\* connect() resolved: getWalletAsync subscribes getAddress and getChainId
\* (getObservable: initial fetch, then provider.on).  Without request(),
\* getAccounts resolves to [] at once and ethChainId rejects.
getWalletAsync(s, lg) ==
    /\ pc' = [pc EXCEPT ![s] = "live"]
    /\ listeners' = [listeners EXCEPT !["accountsChanged"] = @ \cup {s},
                                      !["chainChanged"] = @ \cup {s}]
    /\ IF caps.hasRequest
       THEN /\ log' = [log EXCEPT ![s] = lg \o
                        <<Call("eth_accounts"), On("accountsChanged"),
                          Call("eth_chainId"), On("chainChanged")>>]
            /\ addrFetch' = [addrFetch EXCEPT ![s] = Pending]
            /\ chainFetch' = [chainFetch EXCEPT ![s] = Pending]
            /\ UNCHANGED addrSig
       ELSE /\ log' = [log EXCEPT ![s] = lg \o
                        <<On("accountsChanged"), On("chainChanged"),
                          AddrNext(firstAccount(<<>>))>>]
            /\ addrFetch' = [addrFetch EXCEPT ![s] = [st |-> "done", val |-> <<>>]]
            /\ chainFetch' = [chainFetch EXCEPT ![s] = [st |-> "rejected", val |-> <<>>]]
            /\ addrSig' = [addrSig EXCEPT ![s] = <<firstAccount(<<>>)>>]
    /\ UNCHANGED <<chainSig, statSig, gotInst>>

\* enableProvider(provider)
enableProvider(s, lg) ==
    IF caps.hasRequest THEN Await(s, lg, "requestAccounts", "eth_requestAccounts")
    ELSE IF caps.hasEnable THEN Await(s, lg, "enable", "enable")
    ELSE getWalletAsync(s, lg)

\* connect() asking for authorization without reading eth_accounts first
connectAuthorizeFirst(s, lg) ==
    IF ~caps.present THEN Fail(s, lg)
    ELSE enableProvider(s, lg)

\* connect(), up to its first await
connect(s, lg) ==
    IF ~caps.present THEN Fail(s, lg)
    ELSE IF caps.hasRequest THEN Await(s, lg, "accounts", "eth_accounts")
    ELSE enableProvider(s, lg)

\* Subscriptions are interchangeable: they are taken in index order.
NextToSubscribe(s) == pc[s] = "idle" /\ \A t \in Subs : t < s => pc[t] # "idle"

\* subscribe to getConnection() of the injected provider:
\* startWith(Connecting), then defer(() => from(connect()))
SubscribeWithoutStartWith(s) ==
    /\ kind = PROVIDER_ID_INJECTED
    /\ NextToSubscribe(s)
    /\ connect(s, log[s])
    /\ last' = [last EXCEPT !.fresh = FALSE]
    /\ UNCHANGED accounts
    /\ WalletSame /\ CallersSame /\ InstanceSame /\ UNCHANGED nEvents

SubscribeInjected(s) ==
    /\ kind = PROVIDER_ID_INJECTED
    /\ NextToSubscribe(s)
    /\ connect(s, Append(log[s], STATE_CONNECTING))
    /\ last' = [last EXCEPT !.fresh = FALSE]
    /\ UNCHANGED accounts
    /\ WalletSame /\ CallersSame /\ InstanceSame /\ UNCHANGED nEvents

\* eth_accounts of connect() answered
AccountsResolve(s) ==
    /\ pc[s] = "accounts"
    /\ IF Len(accounts) = 0 THEN enableProvider(s, log[s])
       ELSE getWalletAsync(s, log[s])
    /\ last' = [last EXCEPT !.fresh = FALSE]
    /\ UNCHANGED accounts
    /\ WalletSame /\ CallersSame /\ InstanceSame /\ UNCHANGED nEvents

\* a handshake call rejected with nothing to fall back on
HandshakeReject(s) ==
    /\ pc[s] \in {"accounts", "enable"}
    /\ Fail(s, log[s])
    /\ last' = [last EXCEPT !.fresh = FALSE]
    /\ UNCHANGED accounts
    /\ WalletSame /\ CallersSame /\ InstanceSame /\ UNCHANGED nEvents

\* The user approves: the wallet authorizes an account list if it had none.
Authorized(list) == IF Len(accounts) = 0 THEN list ELSE accounts

\* eth_requestAccounts or the legacy enable() resolved
AuthorizeResolve(s, list) ==
    /\ pc[s] \in {"requestAccounts", "enable"}
    /\ Len(list) > 0
    /\ accounts' = Authorized(list)
    /\ getWalletAsync(s, log[s])
    /\ last' = [last EXCEPT !.fresh = FALSE]
    /\ WalletSame /\ CallersSame /\ InstanceSame /\ UNCHANGED nEvents

\* eth_requestAccounts rejected: the catch block falls back to enable()
RequestAccountsReject(s) ==
    /\ pc[s] = "requestAccounts"
    /\ IF caps.hasEnable THEN Await(s, log[s], "enable", "enable")
       ELSE getWalletAsync(s, log[s])
    /\ last' = [last EXCEPT !.fresh = FALSE]
    /\ UNCHANGED accounts
    /\ WalletSame /\ CallersSame /\ InstanceSame /\ UNCHANGED nEvents

\* --------------------------------------- WalletConnect provider: instance
\* cache(fn): the observable of the memoized promise of fn(); the first
\* subscription runs fn, every other one shares its (in-flight) promise.
cache ==
    IF inst.st = "none"
    THEN /\ inst' = [st |-> "connecting", id |-> connectRuns + 1]
         /\ connectRuns' = connectRuns + 1
    ELSE UNCHANGED <<inst, connectRuns>>

\* this._connect() called afresh, bypassing the cached instance
connectAfresh ==
    /\ inst' = [st |-> "connecting", id |-> connectRuns + 1]
    /\ connectRuns' = connectRuns + 1

\* this.instance as the constructor builds it: cache(() => this._connect())
instance == cache

\* getConnect(instance) for the subscriptions in W, whose logs so far are lg:
\* getAddress and getChainId await their first read, getConnectedStatus
\* resolves at once (its listener is registered and "connected" emitted).
getConnect(W, lg, id) ==
    /\ pc' = [s \in Subs |-> IF s \in W THEN "live" ELSE pc[s]]
    /\ log' = [s \in Subs |-> IF s \in W
                 THEN lg[s] \o <<Call("eth_accounts"), Call("eth_chainId"),
                                 On("disconnected"), StatNext("connected")>>
                 ELSE log[s]]
    /\ addrFetch' = [s \in Subs |-> IF s \in W THEN Pending ELSE addrFetch[s]]
    /\ chainFetch' = [s \in Subs |-> IF s \in W THEN Pending ELSE chainFetch[s]]
    /\ statSig' = [s \in Subs |-> IF s \in W THEN <<"connected">> ELSE statSig[s]]
    /\ listeners' = [listeners EXCEPT !["disconnected"] = @ \cup W]
    /\ gotInst' = [s \in Subs |-> IF s \in W THEN id ELSE gotInst[s]]
    /\ UNCHANGED <<addrSig, chainSig>>

\* subscribe to getConnection() of the WalletConnect provider:
\* defer(() => this.instance.pipe(mergeMap(getConnect), startWith(CONNECTING)))
SubscribeWalletConnect(s) ==
    /\ kind = PROVIDER_ID_WALLETCONNECT
    /\ NextToSubscribe(s)
    /\ instance
    /\ LET lg == [log EXCEPT ![s] = Append(@, STATE_CONNECTING)] IN
       CASE inst.st \in {"none", "connecting"} ->
              /\ pc' = [pc EXCEPT ![s] = "instance"]
              /\ log' = lg
              /\ UNCHANGED <<listeners, gotInst>>
              /\ SignalsSame
         [] inst.st = "ready" -> getConnect({s}, lg, inst.id)
         [] inst.st = "failed" -> Fail(s, lg[s])
    /\ last' = [last EXCEPT !.fresh = FALSE]
    /\ UNCHANGED <<accounts, nEvents>>
    /\ WalletSame /\ CallersSame

\* isConnected(): await this.instance.pipe(first()).toPromise(); sdk.connected
isConnected(c) ==
    /\ kind = PROVIDER_ID_WALLETCONNECT
    /\ icPc[c] = "idle"
    /\ instance
    /\ icPc' = [icPc EXCEPT ![c] = CASE inst'.st = "connecting" -> "waiting"
                                     [] inst'.st = "ready" -> "done"
                                     [] inst'.st = "failed" -> "failed"]
    /\ icInst' = [icInst EXCEPT ![c] = IF inst'.st = "ready" THEN inst'.id ELSE 0]
    /\ last' = [last EXCEPT !.fresh = FALSE]
    /\ UNCHANGED <<accounts, nEvents, pc, log, listeners, gotInst>>
    /\ SignalsSame /\ WalletSame

\* _connect(): the module is loaded, the provider built, enable() resolved
ConnectResolve ==
    /\ inst.st = "connecting"
    /\ inst' = [inst EXCEPT !.st = "ready"]
    /\ session' = "connected"
    /\ getConnect({s \in Subs : pc[s] = "instance"}, log, inst.id)
    /\ icPc' = [c \in Callers |-> IF icPc[c] = "waiting" THEN "done" ELSE icPc[c]]
    /\ icInst' = [c \in Callers |-> IF icPc[c] = "waiting" THEN inst.id ELSE icInst[c]]
    /\ last' = [last EXCEPT !.fresh = FALSE]
    /\ UNCHANGED <<kind, caps, chain, probe, autoResult, optionResult,
                   connResult, rpcLog, accounts, nEvents, connectRuns>>

\* _connect(): enable() rejected; every waiting subscription gets the error
ConnectReject ==
    /\ inst.st = "connecting"
    /\ inst' = [inst EXCEPT !.st = "failed"]
    /\ pc' = [s \in Subs |-> IF pc[s] = "instance" THEN "error" ELSE pc[s]]
    /\ log' = [s \in Subs |-> IF pc[s] = "instance" THEN Append(log[s], ErrorNote)
                              ELSE log[s]]
    /\ icPc' = [c \in Callers |-> IF icPc[c] = "waiting" THEN "failed" ELSE icPc[c]]
    /\ last' = [last EXCEPT !.fresh = FALSE]
    /\ UNCHANGED <<accounts, nEvents, connectRuns, listeners, gotInst, icInst>>
    /\ SignalsSame /\ WalletSame

\* ------------------------------------------------ initial fetch of a signal
\* promiseToObservable(promise): the stream of the observable the promise
\* resolves to; it errors when the promise rejects.
promiseToObservable(outcome) == IF outcome = "rejected" THEN "error" ELSE "live"

Open(s) == pc[s] = "live"

\* the wallet answers the pending eth_accounts read with its current accounts
AddressAnswer(s) ==
    /\ addrFetch[s].st = "pending"
    /\ addrFetch' = [addrFetch EXCEPT ![s] = [st |-> "answered", val |-> accounts]]
    /\ last' = [last EXCEPT !.fresh = FALSE]
    /\ UNCHANGED <<accounts, nEvents, pc, log, listeners, gotInst, addrSig,
                   chainSig, statSig, chainFetch>>
    /\ WalletSame /\ CallersSame /\ InstanceSame

\* the wallet answers the pending eth_chainId read with its current chain
ChainAnswer(s) ==
    /\ chainFetch[s].st = "pending"
    /\ chainFetch' = [chainFetch EXCEPT ![s] = [st |-> "answered", val |-> chain]]
    /\ last' = [last EXCEPT !.fresh = FALSE]
    /\ UNCHANGED <<accounts, nEvents, pc, log, listeners, gotInst, addrSig,
                   chainSig, statSig, addrFetch>>
    /\ WalletSame /\ CallersSame /\ InstanceSame

\* The listener a WalletConnect signal stream registers once its first read
\* has arrived (the injected one registered it when the read was issued).
RegisteredOnDelivery(s, ev) ==
    IF kind = PROVIDER_ID_WALLETCONNECT /\ Open(s) THEN {ev} ELSE {}

\* the answer reaches the program: getRaw(provider).then(handler) for the
\* injected provider, startWith(initialAddress) for WalletConnect
AddressDeliver(s) ==
    /\ addrFetch[s].st = "answered"
    /\ addrFetch' = [addrFetch EXCEPT ![s] = [st |-> "done", val |-> <<>>]]
    /\ LET v == firstAccount(addrFetch[s].val)
           reg == RegisteredOnDelivery(s, "accountsChanged")
       IN /\ addrSig' = [addrSig EXCEPT ![s] = IF Open(s) THEN <<v>> ELSE @]
          /\ log' = [log EXCEPT ![s] =
                       IF Open(s)
                       THEN PushSignal(@, AddrNext(v), <<v>>, chainSig[s], statSig[s])
                            \o (IF reg = {} THEN <<>> ELSE <<On("accountsChanged")>>)
                       ELSE @]
          /\ listeners' = [listeners EXCEPT !["accountsChanged"] =
                             IF reg = {} THEN @ ELSE @ \cup {s}]
    /\ last' = [last EXCEPT !.fresh = FALSE]
    /\ UNCHANGED <<accounts, nEvents, pc, gotInst, chainSig, statSig, chainFetch>>
    /\ WalletSame /\ CallersSame /\ InstanceSame

ChainDeliver(s) ==
    /\ chainFetch[s].st = "answered"
    /\ chainFetch' = [chainFetch EXCEPT ![s] = [st |-> "done", val |-> <<>>]]
    /\ LET v == IF kind = PROVIDER_ID_INJECTED THEN parseInt(chainFetch[s].val)
                ELSE networkIdOf(chainFetch[s].val)
           reg == RegisteredOnDelivery(s, "chainChanged")
       IN /\ chainSig' = [chainSig EXCEPT ![s] = IF Open(s) THEN <<v>> ELSE @]
          /\ log' = [log EXCEPT ![s] =
                       IF Open(s)
                       THEN PushSignal(@, ChainNext(v), addrSig[s], <<v>>, statSig[s])
                            \o (IF reg = {} THEN <<>> ELSE <<On("chainChanged")>>)
                       ELSE @]
          /\ listeners' = [listeners EXCEPT !["chainChanged"] =
                             IF reg = {} THEN @ ELSE @ \cup {s}]
    /\ last' = [last EXCEPT !.fresh = FALSE]
    /\ UNCHANGED <<accounts, nEvents, pc, gotInst, addrSig, statSig, addrFetch>>
    /\ WalletSame /\ CallersSame /\ InstanceSame

\* The read rejects.  Injected: getRaw(provider).then(handler) has no
\* rejection handler, the signal just never gets its initial value.
\* WalletConnect: the promise of the signal stream rejects and the
\* combined stream errors.
FetchReject(s, which) ==
    /\ IF which = "address"
       THEN /\ addrFetch[s].st = "pending"
            /\ addrFetch' = [addrFetch EXCEPT ![s] = [st |-> "rejected", val |-> <<>>]]
            /\ UNCHANGED chainFetch
       ELSE /\ chainFetch[s].st = "pending"
            /\ chainFetch' = [chainFetch EXCEPT ![s] = [st |-> "rejected", val |-> <<>>]]
            /\ UNCHANGED addrFetch
    /\ IF kind = PROVIDER_ID_WALLETCONNECT /\ Open(s)
       THEN /\ pc' = [pc EXCEPT ![s] = promiseToObservable("rejected")]
            /\ log' = [log EXCEPT ![s] = Append(@, ErrorNote)]
       ELSE UNCHANGED <<pc, log>>
    /\ last' = [last EXCEPT !.fresh = FALSE]
    /\ UNCHANGED <<accounts, nEvents, listeners, gotInst, addrSig, chainSig, statSig>>
    /\ WalletSame /\ CallersSame /\ InstanceSame

\* --------------------------------------------------------- wallet's events
WalletReachable ==
    IF kind = PROVIDER_ID_INJECTED THEN caps.present ELSE inst.st = "ready"

\* Handlers on the handle whose subscriber is still open.
Heard(ev) == {s \in listeners[ev] : Open(s)}

\* the wallet fires accountsChanged(list): every registered handler runs
AccountsChanged(list) ==
    /\ WalletReachable
    /\ nEvents < MaxEvents
    /\ nEvents' = nEvents + 1
    /\ accounts' = list
    /\ LET v == firstAccount(list)
           P == {s \in Heard("accountsChanged") : Passes(addrSig[s], v)}
       IN /\ addrSig' = [s \in Subs |-> IF s \in P THEN <<v>> ELSE addrSig[s]]
          /\ log' = [s \in Subs |-> IF s \in P
                       THEN PushSignal(log[s], AddrNext(v), <<v>>, chainSig[s], statSig[s])
                       ELSE log[s]]
    /\ last' = Fired(list, Heard("accountsChanged"))
    /\ UNCHANGED <<pc, listeners, gotInst, chainSig, statSig, addrFetch, chainFetch>>
    /\ WalletSame /\ CallersSame /\ InstanceSame

\* the wallet fires chainChanged(raw)
ChainChanged(raw) ==
    /\ WalletReachable
    /\ nEvents < MaxEvents
    /\ nEvents' = nEvents + 1
    /\ chain' = raw
    /\ LET v == IF kind = PROVIDER_ID_INJECTED THEN parseInt(raw) ELSE networkIdOf(raw)
           P == {s \in Heard("chainChanged") : Passes(chainSig[s], v)}
       IN /\ chainSig' = [s \in Subs |-> IF s \in P THEN <<v>> ELSE chainSig[s]]
          /\ log' = [s \in Subs |-> IF s \in P
                       THEN PushSignal(log[s], ChainNext(v), addrSig[s], <<v>>, statSig[s])
                       ELSE log[s]]
    /\ last' = [last EXCEPT !.fresh = FALSE]
    /\ UNCHANGED <<kind, caps, session, probe, autoResult, optionResult,
                   connResult, rpcLog, accounts, pc, listeners, gotInst,
                   addrSig, statSig, addrFetch, chainFetch>>
    /\ CallersSame /\ InstanceSame

\* Listeners getConnectedStatus' handler removes when the session ends.
ReleasedOnSessionEnd(s) == {"disconnected"}

\* the WalletConnect session ends: 'disconnected' fires
SessionDisconnected ==
    /\ kind = PROVIDER_ID_WALLETCONNECT
    /\ session = "connected"
    /\ nEvents < MaxEvents
    /\ nEvents' = nEvents + 1
    /\ session' = "disconnected"
    /\ LET H == listeners["disconnected"]
           P == {s \in Heard("disconnected") : wcDistinct(statSig[s], "disconnected")}
           off(s) == [e \in ReleasedOnSessionEnd(s) |-> Off(e)]
       IN /\ statSig' = [s \in Subs |-> IF s \in P THEN <<"disconnected">> ELSE statSig[s]]
          /\ log' = [s \in Subs |->
                       IF s \in P
                       THEN Append(PushSignal(log[s], StatNext("disconnected"), addrSig[s],
                                       chainSig[s], <<"disconnected">>), Off("disconnected"))
                       ELSE IF s \in H THEN Append(log[s], Off("disconnected"))
                       ELSE log[s]]
          /\ listeners' = [e \in EventNames |->
                             listeners[e] \ {s \in H : e \in ReleasedOnSessionEnd(s)}]
    /\ last' = [last EXCEPT !.fresh = FALSE]
    /\ UNCHANGED <<kind, caps, chain, probe, autoResult, optionResult,
                   connResult, rpcLog, accounts, pc, gotInst, addrSig,
                   chainSig, addrFetch, chainFetch>>
    /\ CallersSame /\ InstanceSame

\* ----------------------------------------------------------------- teardown
\* A teardown that would run again on a closed subscription.
ReleasedOnUnsubscribeEveryTime(s) ==
    IF kind = PROVIDER_ID_INJECTED /\ pc[s] \in {"live", "unsub"}
    THEN {"accountsChanged", "chainChanged"}
    ELSE {}

\* Listeners released when subscription s is unsubscribed: getObservable adds
\* a teardown that removes its handler; the WalletConnect streams add none.
ReleasedOnUnsubscribe(s) ==
    IF kind = PROVIDER_ID_INJECTED /\ Open(s)
    THEN {"accountsChanged", "chainChanged"}
    ELSE {}

\* subscription.unsubscribe(); on a closed subscription it returns at once
Unsubscribe(s) ==
    /\ pc[s] \in {"accounts", "requestAccounts", "enable", "instance", "live",
                  "unsub"}
    /\ Count(log[s], Asked("unsubscribe")) < MaxTeardowns
    /\ pc' = [pc EXCEPT ![s] = "unsub"]
    /\ listeners' = [e \in EventNames |->
                       IF e \in ReleasedOnUnsubscribe(s) THEN listeners[e] \ {s}
                       ELSE listeners[e]]
    /\ log' = [log EXCEPT ![s] =
                 Append(@, Asked("unsubscribe")) \o
                 (IF ReleasedOnUnsubscribe(s) = {} THEN <<>>
                  ELSE <<Off("accountsChanged"), Off("chainChanged")>>)]
    /\ last' = [last EXCEPT !.fresh = FALSE]
    /\ UNCHANGED <<accounts, nEvents, gotInst>>
    /\ SignalsSame /\ WalletSame /\ CallersSame /\ InstanceSame

HasWallet(s) == \E i \in 1..Len(log[s]) : log[s][i].what = "connected" /\ log[s][i].t = "emit"
DisconnectCalled(s) == \E i \in 1..Len(log[s]) : log[s][i] = Asked("disconnect")

\* The shutdown method the injected wallet's disconnect picks on the handle.
shutdownPreferDisconnect(c) ==
    IF c.hasDisconnect THEN "disconnect"
    ELSE IF c.hasClose THEN "close"
    ELSE "none"

shutdownOf(c) ==
    IF c.hasClose THEN "close"
    ELSE IF c.hasDisconnect THEN "disconnect"
    ELSE "none"

\* disconnect of an injected wallet: the promise of close() or disconnect()
\* is handed to the caller, Promise.resolve() without either
injectedDisconnect(s, ok) ==
    LET m == shutdownOf(caps) IN
    /\ log' = [log EXCEPT ![s] =
                 IF m = "none" THEN @ \o <<Asked("disconnect"), Ret("resolved")>>
                 ELSE @ \o <<Asked("disconnect"), Call(m),
                             Ret(IF ok THEN "resolved" ELSE "rejected")>>]
    /\ UNCHANGED listeners

\* disconnect of a WalletConnect wallet: disconnectResolve() lets the two
\* signal streams remove their handlers (once: the promise resolves once),
\* and instance.disconnect() is called, its rejection swallowed by .catch
wcDisconnect(s, ok) ==
    LET R == {e \in {"accountsChanged", "chainChanged"} :
                s \in listeners[e] /\ ~DisconnectCalled(s)}
    IN /\ listeners' = [e \in EventNames |->
                          IF e \in R THEN listeners[e] \ {s} ELSE listeners[e]]
       /\ log' = [log EXCEPT ![s] =
                    @ \o <<Asked("disconnect"), Call("disconnect")>>
                      \o (IF "accountsChanged" \in R THEN <<Off("accountsChanged")>>
                          ELSE <<>>)
                      \o (IF "chainChanged" \in R THEN <<Off("chainChanged")>>
                          ELSE <<>>)
                      \o <<Ret("resolved")>>]

\* The application calls the disconnect of a wallet it was handed in a
\* Connected state; ok: whether the provider's shutdown call resolves.
Disconnect(s, ok) ==
    /\ HasWallet(s)
    /\ Count(log[s], Asked("disconnect")) < MaxTeardowns
    /\ IF kind = PROVIDER_ID_INJECTED THEN injectedDisconnect(s, ok)
       ELSE wcDisconnect(s, ok)
    /\ last' = [last EXCEPT !.fresh = FALSE]
    /\ UNCHANGED <<accounts, nEvents, pc, gotInst>>
    /\ SignalsSame /\ WalletSame /\ CallersSame /\ InstanceSame

\* -------------------------------------------------------------------- Next
\* The only subscription made.
Alone(s) == \A t \in Subs : pc[t] = "idle"

Handshake ==
    \/ \E s \in Subs : AccountsResolve(s)
    \/ \E s \in Subs : HandshakeReject(s)
    \/ \E s \in Subs, list \in AccountLists : AuthorizeResolve(s, list)
    \/ \E s \in Subs : RequestAccountsReject(s)
    \/ \E c \in Callers : isConnected(c)
    \/ ConnectResolve
    \/ ConnectReject

Fetches ==
    \/ \E s \in Subs : AddressAnswer(s)
    \/ \E s \in Subs : ChainAnswer(s)
    \/ \E s \in Subs : AddressDeliver(s)
    \/ \E s \in Subs : ChainDeliver(s)
    \/ \E s \in Subs, which \in {"address", "chainId"} : FetchReject(s, which)

Teardown ==
    \/ \E s \in Subs : Unsubscribe(s)
    \/ \E s \in Subs, ok \in BOOLEAN : Disconnect(s, ok)

\* The application tears down at most once: one unsubscribe() per
\* subscription, one disconnect() per WalletConnect wallet.
NotYet(s, op) == Count(log[s], Asked(op)) = 0

TeardownOnce ==
    \/ \E s \in Subs : NotYet(s, "unsubscribe") /\ Unsubscribe(s)
    \/ \E s \in Subs, ok \in BOOLEAN :
          /\ kind = PROVIDER_ID_WALLETCONNECT
          /\ NotYet(s, "disconnect")
          /\ Disconnect(s, ok)

\* Where no injected wallet is disconnected, the shutdown methods of the
\* handle play no part.
InitPlain ==
    /\ Init
    /\ kind = PROVIDER_ID_INJECTED => (~caps.hasClose /\ ~caps.hasDisconnect)

\* A single subscription (and isConnected() callers), with the wallet's events.
Next ==
    \/ \E s \in Subs : Alone(s) /\ SubscribeInjected(s)
    \/ \E s \in Subs : Alone(s) /\ SubscribeWalletConnect(s)
    \/ Handshake
    \/ Fetches
    \/ \E list \in AccountLists : AccountsChanged(list)
    \/ \E raw \in RawChains : ChainChanged(raw)
    \/ SessionDisconnected
    \/ TeardownOnce

Spec == InitPlain /\ [][Next]_vars

\* Concurrent subscriptions and callers, the wallet firing no event.
NextShared ==
    \/ \E s \in Subs : SubscribeInjected(s)
    \/ \E s \in Subs : SubscribeWalletConnect(s)
    \/ Handshake
    \/ Fetches
    \/ TeardownOnce

SpecShared == InitPlain /\ [][NextShared]_vars

\* A single subscription torn down repeatedly: unsubscribe() and the wallet's
\* disconnect() called up to MaxTeardowns times each, on handles with every
\* combination of shutdown methods; the session may end, the wallet fires no
\* other event.
InitTeardown == Init /\ chain = <<"0", "x", "1">>

NextTeardown ==
    \/ \E s \in Subs : Alone(s) /\ SubscribeInjected(s)
    \/ \E s \in Subs : Alone(s) /\ SubscribeWalletConnect(s)
    \/ Handshake
    \/ Fetches
    \/ SessionDisconnected
    \/ Teardown

SpecTeardown == InitTeardown /\ [][NextTeardown]_vars

\* Concurrent subscriptions and isConnected() callers of the WalletConnect
\* provider around its handshake.
InitInstance == InitPlain /\ kind = PROVIDER_ID_WALLETCONNECT

NextInstance ==
    \/ \E s \in Subs : SubscribeWalletConnect(s)
    \/ \E c \in Callers : isConnected(c)
    \/ ConnectResolve
    \/ ConnectReject
    \/ \E s \in Subs : Unsubscribe(s)

SpecInstance == InitInstance /\ [][NextInstance]_vars

\* ------------------------------------------------- isAutoConnected (injected)
Probes ==
    {p \in [defined : BOOLEAN, flags : SUBSET FlagNames, ctor : CtorNames] :
        ~p.defined => (p.flags = {} /\ p.ctor = "Object")}

InitProbe ==
    /\ kind = PROVIDER_ID_INJECTED
    /\ probe \in Probes
    /\ caps \in {c \in InjectedCaps : /\ c.present = probe.defined
                                      /\ ~c.hasEnable
                                      /\ ~c.hasClose /\ ~c.hasDisconnect}
    /\ accounts \in AccountLists
    /\ chain = <<"0", "x", "1">>
    /\ InitConnection

\* getInjectedProvider(): the handle, or undefined
getInjectedProvider == probe

\* isAutoConnected(): isDappSupportAutoconnect(getDappType(getInjectedProvider()))
isAutoConnected ==
    /\ autoResult = "none"
    /\ autoResult' = IF isDappSupportAutoconnect(getDappType(getInjectedProvider))
                     THEN "true" ELSE "false"
    /\ UNCHANGED <<kind, caps, accounts, chain, session, listeners, nEvents, inst,
                   connectRuns, pc, log, addrSig, chainSig, statSig, addrFetch,
                   chainFetch, gotInst, icPc, icInst, last, probe, optionResult,
                   connResult, rpcLog>>

\* the user authorizes or revokes accounts in the wallet
WalletAccounts(list) ==
    /\ accounts # list
    /\ accounts' = list
    /\ UNCHANGED <<kind, caps, chain, session, listeners, nEvents, inst,
                   connectRuns, pc, log, addrSig, chainSig, statSig, addrFetch,
                   chainFetch, gotInst, icPc, icInst, last, probe, autoResult,
                   optionResult, connResult, rpcLog>>

\* getOption(): Promise.resolve(getDappType(getInjectedProvider()))
getOption ==
    /\ optionResult = "none"
    /\ optionResult' = getDappType(getInjectedProvider)
    /\ UNCHANGED <<kind, caps, accounts, chain, session, listeners, nEvents, inst,
                   connectRuns, pc, log, addrSig, chainSig, statSig, addrFetch,
                   chainFetch, gotInst, icPc, icInst, last, probe, autoResult,
                   connResult, rpcLog>>

\* getAccounts(provider): the eth_accounts request, or [] without request()
getAccounts ==
    IF caps.hasRequest
    THEN /\ connResult' = "pending"
         /\ rpcLog' = Append(rpcLog, "eth_accounts")
    ELSE /\ connResult' = IF firstAccount(<<>>) # "undef" THEN "true" ELSE "false"
         /\ UNCHANGED rpcLog

\* isConnected() of the injected provider, up to the answer of getAccounts
injectedIsConnected ==
    /\ connResult = "none"
    /\ IF getInjectedProvider.defined THEN getAccounts
       ELSE connResult' = "false" /\ UNCHANGED rpcLog
    /\ UNCHANGED <<kind, caps, accounts, chain, session, listeners, nEvents, inst,
                   connectRuns, pc, log, addrSig, chainSig, statSig, addrFetch,
                   chainFetch, gotInst, icPc, icInst, last, probe, autoResult,
                   optionResult>>

\* eth_accounts answered: .then(([account]) => account !== undefined),
\* or the request rejected
injectedIsConnectedAnswer(ok) ==
    /\ connResult = "pending"
    /\ connResult' = IF ~ok THEN "rejected"
                     ELSE IF firstAccount(accounts) # "undef" THEN "true"
                     ELSE "false"
    /\ UNCHANGED <<kind, caps, accounts, chain, session, listeners, nEvents, inst,
                   connectRuns, pc, log, addrSig, chainSig, statSig, addrFetch,
                   chainFetch, gotInst, icPc, icInst, last, probe, autoResult,
                   optionResult, rpcLog>>

NextProbe ==
    \/ isAutoConnected
    \/ getOption
    \/ injectedIsConnected
    \/ \E ok \in BOOLEAN : injectedIsConnectedAnswer(ok)
    \/ \E list \in AccountLists : WalletAccounts(list)

SpecProbe == InitProbe /\ [][NextProbe]_vars

\* -------------------------------------------------------------- properties
Subscribed(s) == pc[s] # "idle"
States(s) == Emitted(log[s])
FetchesDone(s) == addrFetch[s].st = "done" /\ chainFetch[s].st = "done"
SignalLog(s, name) == SelectSeq(log[s], LAMBDA e : e.t = "sig" /\ e.what = name)
NoRepeat(sq) == \A i \in 1..(Len(sq) - 1) : sq[i] # sq[i + 1]
NoRepeatedConnected(sq) ==
    \A i \in 1..(Len(sq) - 1) : sq[i].what = "connected" => sq[i] # sq[i + 1]

\* C1 as stated, in the case most favourable to it: the initial fetches have
\* resolved and an accountsChanged event with a non-empty list has just been
\* delivered to the subscription's listener.  Then the last emitted state is
\* Connected with the first element of that list as address.
C1_Original ==
    \A s \in last.to :
        (last.fresh /\ Len(last.accts) > 0 /\ Open(s) /\ FetchesDone(s))
        => /\ Last(States(s)).what = "connected"
           /\ Last(States(s)).address = last.accts[1]

\* C1 amended: when an accountsChanged event with a non-empty list has just
\* been delivered to the listener of an open subscription whose chain-id
\* signal has emitted (and, for WalletConnect, whose liveness signal is
\* "connected"), the last emitted state is Connected with the first element
\* of that list as address and the current chain id.
C1_DeliveredAccountConnects ==
    \A s \in last.to :
        (/\ last.fresh
         /\ Len(last.accts) > 0
         /\ chainSig[s] # <<>>
         /\ (kind = PROVIDER_ID_WALLETCONNECT => statSig[s] = <<"connected">>))
        => Last(States(s)) = getStateConnected(last.accts[1], chainSig[s][1])

C1_Witness ==
    /\ last.fresh
    /\ Len(last.accts) > 1
    /\ \E s \in last.to :
          /\ chainSig[s] # <<>>
          /\ Last(States(s)).what = "connected"
          /\ Len(States(s)) > 2

\* C2 as stated: after an accountsChanged event with the empty list was
\* delivered, the last emitted state is Disconnected, also while the chain-id
\* signal has not emitted (its initial fetch still in flight).
C2_Original ==
    \A s \in last.to :
        (/\ last.seen
         /\ last.accts = <<>>
         /\ Open(s)
         /\ chainFetch[s].st \in {"pending", "answered", "done"})
        => Last(States(s)) = STATE_DISCONNECTED

\* C2 amended: when an accountsChanged event with the empty list has just been
\* delivered to the listener of an open subscription, the last emitted state
\* is Disconnected provided the chain-id signal has emitted; while the
\* chain-id signal has not emitted, nothing but Connecting has been emitted.
C2_DeliveredEmptyDisconnects ==
    \A s \in last.to :
        (last.fresh /\ last.accts = <<>>)
        => IF chainSig[s] # <<>>
           THEN Last(States(s)) = STATE_DISCONNECTED
           ELSE States(s) = <<STATE_CONNECTING>>

C2_Witness ==
    /\ last.fresh
    /\ last.accts = <<>>
    /\ \E s \in last.to :
          /\ chainSig[s] # <<>>
          /\ Len(States(s)) > 2
          /\ States(s)[Len(States(s)) - 1].what = "connected"

\* C3: an unsubscribed subscription has no listener left on the handle,
\* for any event.
C3_Original ==
    \A s \in Subs : pc[s] = "unsub" => \A e \in EventNames : s \notin listeners[e]

C5_SingleHandshake ==
    kind = PROVIDER_ID_WALLETCONNECT =>
    /\ connectRuns <= 1
    /\ ((\E s \in Subs : Subscribed(s)) \/ (\E c \in Callers : icPc[c] # "idle"))
       => connectRuns = 1
    /\ \A s \in Subs : gotInst[s] # 0 => gotInst[s] = inst.id
    /\ \A c \in Callers : icInst[c] # 0 => icInst[c] = inst.id

C5_Witness ==
    /\ Cardinality({s \in Subs : gotInst[s] # 0}) > 1
    /\ \E c \in Callers : icInst[c] # 0
    /\ connectRuns = 1

\* C6: the first thing a subscription does is emit Connecting (before any call
\* to the provider); it emits Connecting exactly once, never after another
\* state.
C6_ConnectingFirst ==
    \A s \in Subs :
        Subscribed(s) =>
            /\ Len(log[s]) > 0
            /\ log[s][1] = STATE_CONNECTING
            /\ \A i \in 2..Len(log[s]) : log[s][i] # STATE_CONNECTING

C6_Witness ==
    \E s \in Subs :
        /\ Len(States(s)) > 2
        /\ States(s)[2].what = "connected"
        /\ Last(States(s)) = STATE_DISCONNECTED

\* C7: for WalletConnect, once the session's 'disconnected' event reached a
\* Connected subscription (wallet.disconnect() never called), the last state
\* is Disconnected and the subscription has no accountsChanged or
\* chainChanged listener left on the provider.
C7_Original ==
    \A s \in Subs :
        (/\ kind = PROVIDER_ID_WALLETCONNECT
         /\ HasWallet(s)
         /\ ~DisconnectCalled(s)
         /\ statSig[s] = <<"disconnected">>)
        => /\ Last(States(s)) = STATE_DISCONNECTED
           /\ s \notin listeners["accountsChanged"]
           /\ s \notin listeners["chainChanged"]

\* C8: no subscription ever receives an error notification.
C8_Original ==
    \A s \in Subs : pc[s] # "error" /\ \A i \in 1..Len(log[s]) : log[s][i] # ErrorNote

\* Runs of the handshake: connect() of the injected provider, _connect() of
\* the WalletConnect provider.
HandshakeRuns ==
    IF kind = PROVIDER_ID_INJECTED THEN Cardinality({s \in Subs : Subscribed(s)})
    ELSE connectRuns

\* C9: with several subscriptions open at once, the handshake has been
\* performed once and at most one listener per event name is registered on
\* the handle.
C9_Original ==
    Cardinality({s \in Subs : Open(s)}) > 1 =>
        /\ HandshakeRuns <= 1
        /\ \A e \in EventNames : Cardinality(listeners[e]) <= 1

\* C10 as stated: isAutoConnected() is false without a provider and for the
\* families of the unsupported and the disabled sets, true for every other
\* recognized family and for the generic family.
C10_Original ==
    autoResult # "none" =>
        LET dapp == getDappType(probe) IN
        /\ (dapp = "undefined" \/ dapp \in {"Dapper", "Metamask"}) => autoResult = "false"
        /\ (dapp \in DappTypes \ {"Dapper", "Metamask"}) => autoResult = "true"

\* C10 amended: isAutoConnected() is false without a provider, for Dapper
\* (unsupported) and for Metamask and the generic family (disabled by policy),
\* and true for every other recognized family, whatever accounts are
\* authorized.
C10_AutoConnectPolicy ==
    autoResult # "none" =>
        (autoResult = "true" <=>
            getDappType(probe) \in {"Trust", "GoWallet", "AlphaWallet", "Status",
                                    "Coinbase", "Cipher", "Mist", "Parity",
                                    "ImToken", "Mock"})

C10_Witness ==
    /\ autoResult = "false"
    /\ getDappType(probe) = Generic
    /\ Len(accounts) > 0

\* C11: with no injected provider, getOption() resolves to the absent value,
\* isConnected() resolves to false, neither of them rejects and neither
\* issues an RPC request.
C11_NoProviderQueries ==
    ~probe.defined =>
        /\ optionResult \in {"none", "undefined"}
        /\ connResult \in {"none", "false"}
        /\ rpcLog = <<>>

C11_Witness ==
    /\ ~probe.defined
    /\ optionResult = "undefined"
    /\ connResult = "false"

\* What a step appends to the log of subscription s.
Appended(s) == SubSeq(log'[s], Len(log[s]) + 1, Len(log'[s]))
Has(sq, e) == \E i \in 1..Len(sq) : sq[i] = e
InHandshake(s) == pc[s] \in {"accounts", "requestAccounts", "enable", "instance"}

\* C12: handshake of the injected provider, step by step.  With request(),
\* subscribing issues eth_accounts before anything else (without request()
\* getAccounts yields no accounts and issues nothing).  An authorization call
\* is made only after the accounts query returned no accounts;
\* eth_requestAccounts is the first one tried when the provider has
\* request(); enable() is called only when request() is absent or
\* eth_requestAccounts just rejected; with neither capability subscribing
\* goes straight to the signal streams with no authorization call; listeners
\* are registered only by the step that completes the handshake.
C12_HandshakeOrder ==
    [][kind = PROVIDER_ID_INJECTED =>
        \A s \in Subs :
            LET new == Appended(s)
                start == pc[s] = "idle" /\ pc'[s] # "idle" /\ caps.present
                empty == Len(accounts) = 0
            IN /\ (start /\ caps.hasRequest)
                    => new = <<STATE_CONNECTING, Call("eth_accounts")>>
               /\ Has(new, Call("eth_requestAccounts"))
                    => caps.hasRequest /\ pc[s] = "accounts" /\ empty
               /\ (pc[s] = "accounts" /\ pc'[s] \in {"requestAccounts", "enable", "live"})
                    => (empty <=> pc'[s] = "requestAccounts")
               /\ Has(new, Call("enable"))
                    => /\ caps.hasEnable
                       /\ \/ start /\ ~caps.hasRequest
                          \/ pc[s] = "requestAccounts"
                                /\ accounts' = accounts /\ pc'[s] = "enable"
               /\ (start /\ ~caps.hasRequest /\ ~caps.hasEnable)
                    => /\ pc'[s] = "live"
                       /\ ~\E i \in 1..Len(new) : new[i].t = "call"
               /\ \A e \in EventNames :
                     (s \in listeners'[e] \ listeners[e] \/ Has(new, On(e)))
                        => /\ pc'[s] = "live"
                           /\ pc[s] = "idle" \/ InHandshake(s)
                           /\ s \in listeners'[e] /\ Has(new, On(e))
      ]_vars

\* A handshake that went through eth_accounts, a rejected
\* eth_requestAccounts and enable() before the listeners were registered.
C12_Witness ==
    \E s \in Subs :
        /\ kind = PROVIDER_ID_INJECTED
        /\ Open(s)
        /\ SelectSeq(log[s], LAMBDA e : e.t \in {"call", "on"}) =
              <<Call("eth_accounts"), Call("eth_requestAccounts"), Call("enable"),
                Call("eth_accounts"), On("accountsChanged"), Call("eth_chainId"),
                On("chainChanged")>>

FetchFailed(s) == addrFetch[s].st = "rejected" \/ chainFetch[s].st = "rejected"
FetchesSettled(s) ==
    /\ addrFetch[s].st \in {"done", "rejected"}
    /\ chainFetch[s].st \in {"done", "rejected"}

\* C13: when the initial fetch of a signal failed, the stream has not errored
\* and, as soon as the other signal's fetch is settled too, an open
\* subscription has Disconnected as its last state (it is not left at
\* Connecting).
C13_Original ==
    \A s \in Subs :
        FetchFailed(s) =>
            /\ pc[s] # "error"
            /\ (Open(s) /\ FetchesSettled(s)) => Last(States(s)) = STATE_DISCONNECTED

\* C14, in the case most favourable to it: an accountsChanged event the
\* wallet fires after it has answered the initial read of the address signal
\* (on an open subscription whose wallet was not disconnected by the
\* application) reaches the subscription's handler, and the address signal
\* then carries the mapped payload.
C14_Original ==
    last.fresh =>
        \A s \in Subs :
            (/\ Open(s)
             /\ addrFetch[s].st \in {"answered", "done"}
             /\ ~DisconnectCalled(s))
            => /\ s \in last.to
               /\ addrSig[s] = <<firstAccount(last.accts)>>

IsAddr(e) == e.t = "sig" /\ e.what = "address"
IsChain(e) == e.t = "sig" /\ e.what = "chainId"
IsStat(e) == e.t = "sig" /\ e.what \in {"connected", "disconnected"}
\* Index of the latest entry before position i that satisfies P (0: none).
LatestBefore(lg, i, P(_)) ==
    LET J == {j \in 1..(i - 1) : P(lg[j])}
    IN IF J = {} THEN 0 ELSE CHOOSE j \in J : \A k \in J : k <= j

\* C15: every Connected state in a subscription's history carries a non-empty
\* address and a chain id equal to the latest emissions of the address and
\* the chain-id signal before it, and for WalletConnect the latest liveness
\* emission before it is "connected"; every state other than Connecting is
\* preceded by an emission of each combined signal.
C15_ConnectedCarriesLatest ==
    \A s \in Subs : \A i \in 1..Len(log[s]) :
        LET e == log[s][i]
            ia == LatestBefore(log[s], i, IsAddr)
            ic == LatestBefore(log[s], i, IsChain)
            is == LatestBefore(log[s], i, IsStat)
        IN /\ (e.t = "emit" /\ e # STATE_CONNECTING)
                => /\ ia > 0 /\ ic > 0
                   /\ kind = PROVIDER_ID_WALLETCONNECT => is > 0
           /\ (e.t = "emit" /\ e.what = "connected")
                => /\ e.address \notin {"undef", ""}
                   /\ e.address = log[s][ia].address
                   /\ e.chainId = log[s][ic].chainId
                   /\ e.chainId > 0
                   /\ kind = PROVIDER_ID_WALLETCONNECT => log[s][is].what = "connected"

\* Connected states that followed a change of address and a change of chain.
C15_Witness ==
    \E s \in Subs :
        /\ Len(SignalLog(s, "address")) > 1
        /\ Len(SignalLog(s, "chainId")) > 1
        /\ Len(States(s)) > 3
        /\ Last(States(s)).what = "connected"
        /\ States(s)[Len(States(s)) - 1].what = "connected"
        /\ Last(States(s)).chainId # States(s)[2].chainId

\* C16: in a WalletConnect subscription every state emitted after the
\* liveness signal emitted "disconnected" is Disconnected.
C16_NoReconnect ==
    kind = PROVIDER_ID_WALLETCONNECT =>
        \A s \in Subs : \A i, j \in 1..Len(log[s]) :
            (i < j /\ log[s][i] = StatNext("disconnected") /\ log[s][j].t = "emit")
            => log[s][j] = STATE_DISCONNECTED

\* After the session ended, an accountsChanged event with a new account
\* reached the subscription and a state was emitted for it.
C16_Witness ==
    \E s \in Subs : \E i, j, k \in 1..Len(log[s]) :
        /\ kind = PROVIDER_ID_WALLETCONNECT
        /\ i < j /\ j < k
        /\ log[s][i] = StatNext("disconnected")
        /\ IsAddr(log[s][j]) /\ log[s][j].address # "undef"
        /\ log[s][k].t = "emit"
        /\ HasWallet(s)

\* C17: however often unsubscribe() and the wallet's disconnect() are called,
\* removeListener has run at most once per registered handler (per event
\* name: no more removals than registrations, and a subscription registers a
\* handler at most once), no call was answered with an error notification,
\* and every disconnect() of a WalletConnect wallet returned normally.
C17_TeardownIdempotent ==
    \A s \in Subs :
        /\ \A e \in EventNames :
              /\ Count(log[s], On(e)) <= 1
              /\ Count(log[s], Off(e)) <= Count(log[s], On(e))
              /\ (s \in listeners[e]) <=> (Count(log[s], On(e)) > Count(log[s], Off(e)))
        /\ \A i, j \in 1..Len(log[s]) :
              (i < j /\ log[s][i].t = "app") => log[s][j] # ErrorNote
        /\ kind = PROVIDER_ID_WALLETCONNECT
              => Count(log[s], Ret("resolved")) = Count(log[s], Asked("disconnect"))

\* A WalletConnect wallet disconnected twice and its subscription
\* unsubscribed twice, after its listeners had been registered.
C17_Witness ==
    \E s \in Subs :
        /\ kind = PROVIDER_ID_WALLETCONNECT
        /\ Count(log[s], Asked("disconnect")) = 2
        /\ Count(log[s], Asked("unsubscribe")) = 2
        /\ Count(log[s], Off("accountsChanged")) = 1
        /\ Count(log[s], Off("chainChanged")) = 1

\* C18: while the handshake of a subscription is pending (eth_accounts, the
\* authorization prompt, the legacy enable(), or the WalletConnect instance),
\* the subscription has emitted Connecting and nothing else and has no
\* listener on the provider, whatever the wallet does meanwhile.
C18_PendingHandshake ==
    \A s \in Subs :
        InHandshake(s) =>
            /\ States(s) = <<STATE_CONNECTING>>
            /\ \A e \in EventNames : s \notin listeners[e] /\ ~Has(log[s], On(e))
            /\ addrSig[s] = <<>> /\ chainSig[s] = <<>> /\ statSig[s] = <<>>

\* The legacy enable() is pending after eth_requestAccounts was rejected,
\* and the wallet has fired every event it had meanwhile.
C18_Witness ==
    \E s \in Subs :
        /\ pc[s] = "enable"
        /\ Has(log[s], Call("eth_requestAccounts"))
        /\ last.seen
        /\ nEvents > 1

\* C19: each disconnect() of an injected wallet calls close() when the handle
\* has it, else disconnect() when the handle has it, else calls nothing and
\* resolves; the handle's shutdown methods are called by nothing else.  Each
\* disconnect() of a WalletConnect wallet calls the instance's disconnect(),
\* leaves the subscription without accountsChanged and chainChanged listener,
\* and resolves for the caller whether or not that call rejected.
C19_DisconnectCapability ==
    \A s \in Subs : \A i \in 1..Len(log[s]) :
        LET lg == log[s] IN
        /\ lg[i] = Asked("disconnect") =>
              /\ i < Len(lg)
              /\ IF kind = PROVIDER_ID_INJECTED
                 THEN IF caps.hasClose
                      THEN lg[i + 1] = Call("close") /\ lg[i + 2].t = "ret"
                      ELSE IF caps.hasDisconnect
                      THEN lg[i + 1] = Call("disconnect") /\ lg[i + 2].t = "ret"
                      ELSE lg[i + 1] = Ret("resolved")
                 ELSE /\ lg[i + 1] = Call("disconnect")
                      /\ s \notin listeners["accountsChanged"]
                      /\ s \notin listeners["chainChanged"]
                      /\ ~Has(lg, Ret("rejected"))
                      /\ Count(lg, Ret("resolved")) = Count(lg, Asked("disconnect"))
        /\ lg[i] \in {Call("close"), Call("disconnect")} =>
              i > 1 /\ lg[i - 1] = Asked("disconnect")

\* An injected wallet whose handle has both close() and disconnect() was
\* disconnected, and the close() it called rejected.
C19_Witness ==
    \E s \in Subs :
        /\ kind = PROVIDER_ID_INJECTED
        /\ caps.hasClose /\ caps.hasDisconnect
        /\ Has(log[s], Call("close"))
        /\ Has(log[s], Ret("rejected"))
====
